---------------------------- MODULE Spec2Model ----------------------------
(***************************************************************************)
(* Model of host/src/metrics.rs: nine lazily initialised Prometheus       *)
(* instruments (five counter vectors, three histogram vectors, one gauge)  *)
(* and the ten label-addressed update functions that callers of the host   *)
(* invoke concurrently.                                                    *)
(*                                                                         *)
(* A call of an update function is executed in the steps the source line   *)
(* `STATIC.with(&labels).inc()` is made of:                                *)
(*   Call      the function is entered, the label values are stringified   *)
(*   Deref     the lazy_static is dereferenced; the first dereference runs *)
(*             the initialiser (LazyInitBegin, then RegisterOk or a panic  *)
(*             of `.unwrap()`), concurrent dereferences wait for it        *)
(*   With      the series of the label tuple is looked up or created and   *)
(*             a handle to it is returned                                  *)
(*   Inc / Observe   the handle is updated and the function returns        *)
(* Steps of different callers interleave freely.  The prometheus crate is  *)
(* modelled by its contract: get-or-create of a series is atomic, and so   *)
(* is one update of an integer counter, a gauge or a histogram.  Integer   *)
(* counters and gauges are 64 bits wide; no run of the model comes near    *)
(* 2^63 updates, so wrap-around is not modelled.  f64 is modelled with a   *)
(* mantissa of MantBits bits in place of 53, see U128AsF64.                *)
(***************************************************************************)
EXTENDS Integers, Sequences, FiniteSets, Bags, TLC

VARIABLES
    registry,   \* the process-wide default registry: descriptors registered
    lazy,       \* per static: "uninit", "running", "ready" or "poisoned"
    children,   \* per vector static: label-value tuple -> number of its series object
    series,     \* per vector static: series object -> value
    gauge,      \* value of the CONCURRENT_REQUESTS gauge
    pc,         \* per caller: "idle", "deref", "init", "apply" or "panicked"
    call,       \* per caller: the call in progress
    handle,     \* per caller: the series object `with` returned
    returned,   \* bag of the calls that have returned
    script,     \* per caller: the calls it has still to make, in order
    up          \* FALSE once a panic has taken the process down

vars == <<registry, lazy, children, series, gauge, pc, call, handle, returned,
          script, up>>

(***************************************************************************)
(* Bounds and input domains.                                               *)
(***************************************************************************)
MaxRounds == 2

MantBits == 13

Callers == {"c1", "c2"}

BlockIds == {7, 42}

ProofTypes == {"GuestA", "GuestB"}

BigTime == 2 ^ MantBits + 1

Times == {1500, BigTime}

(***************************************************************************)
(* The lazy_static declarations.                                           *)
(***************************************************************************)
HOST_REQ_COUNT ==
    [name |-> "host_request_count", kind |-> "counter", labels |-> <<"block_id">>]

HOST_ERROR_COUNT ==
    [name |-> "host_error_count", kind |-> "counter", labels |-> <<"block_id">>]

GUEST_PROOF_REQ_COUNT ==
    [name |-> "guest_proof_request_count", kind |-> "counter",
     labels |-> <<"guest", "block_id">>]

GUEST_PROOF_SUCCESS_COUNT ==
    [name |-> "guest_proof_success_count", kind |-> "counter",
     labels |-> <<"guest", "block_id">>]

GUEST_PROOF_ERROR_COUNT ==
    [name |-> "guest_proof_error_count", kind |-> "counter",
     labels |-> <<"guest", "block_id">>]

\* The guest histogram declared with its first two label names swapped.
GUEST_PROOF_TIME_swapped_labels ==
    [name |-> "guest_proof_time_histogram", kind |-> "histogram",
     labels |-> <<"block_id", "guest", "success">>]

GUEST_PROOF_TIME ==
    [name |-> "guest_proof_time_histogram", kind |-> "histogram",
     labels |-> <<"guest", "block_id", "success">>]

PREPARE_INPUT_TIME ==
    [name |-> "prepare_input_time_histogram", kind |-> "histogram",
     labels |-> <<"block_id", "success">>]

TOTAL_TIME ==
    [name |-> "total_time_histogram", kind |-> "histogram",
     labels |-> <<"block_id", "success">>]

CONCURRENT_REQUESTS ==
    [name |-> "concurrent_requests", kind |-> "gauge", labels |-> <<>>]

Statics ==
    {"HOST_REQ_COUNT", "HOST_ERROR_COUNT", "GUEST_PROOF_REQ_COUNT",
     "GUEST_PROOF_SUCCESS_COUNT", "GUEST_PROOF_ERROR_COUNT", "GUEST_PROOF_TIME",
     "PREPARE_INPUT_TIME", "TOTAL_TIME", "CONCURRENT_REQUESTS"}

Decl(s) ==
    CASE s = "HOST_REQ_COUNT" -> HOST_REQ_COUNT
      [] s = "HOST_ERROR_COUNT" -> HOST_ERROR_COUNT
      [] s = "GUEST_PROOF_REQ_COUNT" -> GUEST_PROOF_REQ_COUNT
      [] s = "GUEST_PROOF_SUCCESS_COUNT" -> GUEST_PROOF_SUCCESS_COUNT
      [] s = "GUEST_PROOF_ERROR_COUNT" -> GUEST_PROOF_ERROR_COUNT
      [] s = "GUEST_PROOF_TIME" -> GUEST_PROOF_TIME
      [] s = "PREPARE_INPUT_TIME" -> PREPARE_INPUT_TIME
      [] s = "TOTAL_TIME" -> TOTAL_TIME
      [] s = "CONCURRENT_REQUESTS" -> CONCURRENT_REQUESTS

VecStatics == {s \in Statics : Decl(s).kind # "gauge"}

(***************************************************************************)
(* Stringification of label values and the cast of a duration.            *)
(***************************************************************************)
Digits == <<"0", "1", "2", "3", "4", "5", "6", "7", "8", "9">>

RECURSIVE U64ToString(_)
\* u64::to_string: the decimal digits, most significant first.
U64ToString(n) ==
    IF n < 10 THEN Digits[n + 1]
    ELSE U64ToString(n \div 10) \o Digits[(n % 10) + 1]

\* bool::to_string.
BoolToString(b) == IF b THEN "true" ELSE "false"

\* ProofType's Display (crate::request): the backend's display name.
ProofTypeToString(guest) ==
    CASE guest = "GuestA" -> "GuestA"
      [] guest = "GuestB" -> "GuestB"

RECURSIVE Ulp(_)
\* The spacing of the floating-point numbers around n >= 0.
Ulp(n) == IF n < 2 ^ MantBits THEN 1 ELSE 2 * Ulp(n \div 2)

\* The nearest floating-point number to the integer n >= 0, ties to even.
RoundF64(n) ==
    LET u == Ulp(n)
        q == n \div u
        r == n % u
    IN  IF 2 * r < u THEN q * u
        ELSE IF 2 * r > u THEN (q + 1) * u
        ELSE IF q % 2 = 0 THEN q * u
        ELSE (q + 1) * u

\* A cast that also converts the unit (nanoseconds to microseconds).
U128AsF64Micros(time) == RoundF64(time \div 1000)

\* `time as f64`.
U128AsF64(time) == RoundF64(time)

\* f64 addition of two non-negative integral values.
F64Add(a, b) == RoundF64(a + b)

(***************************************************************************)
(* The update functions: the static each addresses, the label map it       *)
(* builds with labels!, and the update it applies.                         *)
(***************************************************************************)
inc_current_req ==
    [static |-> "CONCURRENT_REQUESTS", labels |-> <<>>, update |-> "inc", value |-> 0]

dec_current_req ==
    [static |-> "CONCURRENT_REQUESTS", labels |-> <<>>, update |-> "dec", value |-> 0]

inc_host_req_count(block_id) ==
    [static |-> "HOST_REQ_COUNT",
     labels |-> [block_id |-> U64ToString(block_id)],
     update |-> "inc", value |-> 0]

inc_host_error(block_id) ==
    [static |-> "HOST_ERROR_COUNT",
     labels |-> [block_id |-> U64ToString(block_id)],
     update |-> "inc", value |-> 0]

inc_guest_req_count(guest, block_id) ==
    [static |-> "GUEST_PROOF_REQ_COUNT",
     labels |-> [guest |-> ProofTypeToString(guest), block_id |-> U64ToString(block_id)],
     update |-> "inc", value |-> 0]

inc_guest_success(guest, block_id) ==
    [static |-> "GUEST_PROOF_SUCCESS_COUNT",
     labels |-> [guest |-> ProofTypeToString(guest), block_id |-> U64ToString(block_id)],
     update |-> "inc", value |-> 0]

\* inc_guest_error addressing the success counter.
inc_guest_error_wrong_static(guest, block_id) ==
    [static |-> "GUEST_PROOF_SUCCESS_COUNT",
     labels |-> [guest |-> ProofTypeToString(guest), block_id |-> U64ToString(block_id)],
     update |-> "inc", value |-> 0]

inc_guest_error(guest, block_id) ==
    [static |-> "GUEST_PROOF_ERROR_COUNT",
     labels |-> [guest |-> ProofTypeToString(guest), block_id |-> U64ToString(block_id)],
     update |-> "inc", value |-> 0]

\* observe_guest_time that drops the outcome: every observation is tagged
\* as a success.
observe_guest_time_untagged(guest, block_id, time, success) ==
    [static |-> "GUEST_PROOF_TIME",
     labels |-> [guest |-> ProofTypeToString(guest), block_id |-> U64ToString(block_id),
                 success |-> "true"],
     update |-> "observe", value |-> U128AsF64(time)]

observe_guest_time(guest, block_id, time, success) ==
    [static |-> "GUEST_PROOF_TIME",
     labels |-> [guest |-> ProofTypeToString(guest), block_id |-> U64ToString(block_id),
                 success |-> BoolToString(success)],
     update |-> "observe", value |-> U128AsF64(time)]

observe_prepare_input_time(block_id, time, success) ==
    [static |-> "PREPARE_INPUT_TIME",
     labels |-> [block_id |-> U64ToString(block_id), success |-> BoolToString(success)],
     update |-> "observe", value |-> U128AsF64(time)]

\* observe_total_time addressing the prepare-input histogram.
observe_total_time_into_prepare(block_id, time, success) ==
    [static |-> "PREPARE_INPUT_TIME",
     labels |-> [block_id |-> U64ToString(block_id), success |-> BoolToString(success)],
     update |-> "observe", value |-> U128AsF64(time)]

observe_total_time(block_id, time, success) ==
    [static |-> "TOTAL_TIME",
     labels |-> [block_id |-> U64ToString(block_id), success |-> BoolToString(success)],
     update |-> "observe", value |-> U128AsF64(time)]

(***************************************************************************)
(* A call is a record naming the function and its arguments; an argument   *)
(* the function does not take is held at "-", 0 or FALSE.                  *)
(***************************************************************************)
GaugeOps == {"inc_current_req", "dec_current_req"}

HostCounterOps == {"inc_host_req_count", "inc_host_error"}

GuestCounterOps == {"inc_guest_req_count", "inc_guest_success", "inc_guest_error"}

CounterOps == HostCounterOps \cup GuestCounterOps

BlockHistogramOps == {"observe_prepare_input_time", "observe_total_time"}

HistogramOps == {"observe_guest_time"} \cup BlockHistogramOps

MkCall(op, guest, block_id, time, success) ==
    [op |-> op, guest |-> guest, block_id |-> block_id, time |-> time, success |-> success]

Calls ==
    {MkCall(op, "-", 0, 0, FALSE) : op \in GaugeOps}
    \cup {MkCall(op, "-", b, 0, FALSE) : op \in HostCounterOps, b \in BlockIds}
    \cup {MkCall(op, g, b, 0, FALSE) : op \in GuestCounterOps, g \in ProofTypes, b \in BlockIds}
    \cup {MkCall("observe_guest_time", g, b, d, ok) :
            g \in ProofTypes, b \in BlockIds, d \in Times, ok \in BOOLEAN}
    \cup {MkCall(op, "-", b, d, ok) :
            op \in BlockHistogramOps, b \in BlockIds, d \in Times, ok \in BOOLEAN}

\* What the called function does with its arguments.
Plan(c) ==
    CASE c.op = "inc_current_req" -> inc_current_req
      [] c.op = "dec_current_req" -> dec_current_req
      [] c.op = "inc_host_req_count" -> inc_host_req_count(c.block_id)
      [] c.op = "inc_host_error" -> inc_host_error(c.block_id)
      [] c.op = "inc_guest_req_count" -> inc_guest_req_count(c.guest, c.block_id)
      [] c.op = "inc_guest_success" -> inc_guest_success(c.guest, c.block_id)
      [] c.op = "inc_guest_error" -> inc_guest_error(c.guest, c.block_id)
      [] c.op = "observe_guest_time" ->
            observe_guest_time(c.guest, c.block_id, c.time, c.success)
      [] c.op = "observe_prepare_input_time" ->
            observe_prepare_input_time(c.block_id, c.time, c.success)
      [] c.op = "observe_total_time" -> observe_total_time(c.block_id, c.time, c.success)

NoCall == MkCall("none", "-", 0, 0, FALSE)

NoHandle == [key |-> <<>>, n |-> 0]

(***************************************************************************)
(* The vector of a static: series addressed by label values.              *)
(***************************************************************************)
\* A key made of the first label alone.
KeyOfFirstLabel(s, labels) == <<labels[Decl(s).labels[1]]>>

\* The label values of `labels` in the order of the static's label names.
KeyOf(s, labels) == [i \in 1..Len(Decl(s).labels) |-> labels[Decl(s).labels[i]]]

\* A series object that no earlier `with` of this static has created.
FreshObject(s, key) ==
    [key |-> key, n |-> Cardinality({o \in DOMAIN series[s] : o.key = key}) + 1]

\* The value of a new series.
ZeroOf(s) == IF Decl(s).kind = "histogram" THEN [count |-> 0, sum |-> 0] ELSE 0

\* A get-or-create that inserts without looking: every call creates a series
\* and maps the label tuple to it.
VecWithNoLookup(s, labels) ==
    LET key == KeyOf(s, labels)
        o == FreshObject(s, key)
    IN  [handle |-> o,
         children |-> [k \in DOMAIN children[s] \cup {key} |->
                          IF k = key THEN o.n ELSE children[s][k]],
         series |-> (o :> ZeroOf(s)) @@ series[s]]

\* A vector that holds the series of one label tuple at a time: inserting a
\* series for a new tuple evicts the others.
VecWithEviction(s, labels) ==
    LET key == KeyOf(s, labels)
    IN  IF key \in DOMAIN children[s]
        THEN [handle |-> [key |-> key, n |-> children[s][key]],
              children |-> children[s], series |-> series[s]]
        ELSE LET o == FreshObject(s, key)
             IN  [handle |-> o,
                  children |-> (key :> o.n),
                  series |-> (o :> ZeroOf(s)) @@ series[s]]

\* MetricVec::with as called by the update functions: the series of the
\* label tuple if the vector has one, else a new one, inserted.
\* Yields the handle and the vector's new state.
VecWith(s, labels) ==
    LET key == KeyOf(s, labels)
    IN  IF key \in DOMAIN children[s]
        THEN [handle |-> [key |-> key, n |-> children[s][key]],
              children |-> children[s], series |-> series[s]]
        ELSE LET o == FreshObject(s, key)
             IN  [handle |-> o,
                  children |-> (key :> o.n) @@ children[s],
                  series |-> (o :> ZeroOf(s)) @@ series[s]]

\* Whether two callers hold the counter series of static s at once.
Overlap(s) ==
    \E t1 \in Callers : \E t2 \in Callers \ {t1} :
        /\ pc[t1] = "apply" /\ pc[t2] = "apply"
        /\ Plan(call[t1]).static = s /\ Plan(call[t2]).static = s
        /\ handle[t1] = handle[t2]

\* A read-modify-write increment: of two overlapping increments one is lost.
CounterIncRacy(v) ==
    IF \E s \in VecStatics : Overlap(s) THEN v ELSE v + 1

\* IntCounter::inc.
CounterInc(v) == v + 1

\* Histogram::observe.
HistogramObserve(h, v) == [count |-> h.count + 1, sum |-> F64Add(h.sum, v)]

\* A gauge increment that is lost when two callers update the gauge at once.
GaugeIncRacy(v) ==
    IF \E t1 \in Callers : \E t2 \in Callers \ {t1} :
          /\ pc[t1] = "deref" /\ pc[t2] = "deref"
          /\ call[t1].op \in GaugeOps /\ call[t2].op \in GaugeOps
    THEN v
    ELSE v + 1

\* IntGauge::inc.
GaugeInc(v) == v + 1

\* A decrement that stops at zero.
GaugeDecClamped(v) == IF v = 0 THEN 0 ELSE v - 1

\* IntGauge::dec.
GaugeDec(v) == v - 1

(***************************************************************************)
(* Initial state: nothing is initialised, nothing has been called.  Each   *)
(* caller has a sequence of calls to make.                                 *)
(***************************************************************************)
InitProcess ==
    /\ lazy = [s \in Statics |-> "uninit"]
    /\ children = [s \in VecStatics |-> <<>>]
    /\ series = [s \in VecStatics |-> <<>>]
    /\ gauge = 0
    /\ pc = [t \in Callers |-> "idle"]
    /\ call = [t \in Callers |-> NoCall]
    /\ handle = [t \in Callers |-> NoHandle]
    /\ returned = EmptyBag
    /\ up = TRUE

RECURSIVE RepeatSeq(_, _)
\* The sequence sq, n times in a row.
RepeatSeq(sq, n) == IF n = 0 THEN <<>> ELSE sq \o RepeatSeq(sq, n - 1)

\* Every caller makes MaxRounds calls: one call of its own, any call of any
\* function, repeated.
FreeScripts ==
    {[t \in Callers |-> RepeatSeq(<<job[t]>>, MaxRounds)] : job \in [Callers -> Calls]}

Init ==
    /\ InitProcess
    /\ registry = {}
    /\ script \in FreeScripts

(***************************************************************************)
(* Steps of a call.                                                        *)
(***************************************************************************)
\* Caller t enters the update function of the next call of its script.
Call(t) ==
    /\ up
    /\ pc[t] = "idle"
    /\ script[t] # <<>>
    /\ call' = [call EXCEPT ![t] = Head(script[t])]
    /\ script' = [script EXCEPT ![t] = Tail(@)]
    /\ pc' = [pc EXCEPT ![t] = "deref"]
    /\ UNCHANGED <<registry, lazy, children, series, gauge, handle, returned, up>>

\* Caller t returns from its call.
Return(t) ==
    /\ pc' = [pc EXCEPT ![t] = "idle"]
    /\ returned' = returned (+) SetToBag({call[t]})
    /\ call' = [call EXCEPT ![t] = NoCall]
    /\ handle' = [handle EXCEPT ![t] = NoHandle]

\* A lazy initialisation without the Once: a caller that finds the static
\* not yet initialised runs the initialiser, also while another runs it.
LazyInitBeginUnguarded(t) ==
    LET s == Plan(call[t]).static
    IN  /\ up
        /\ pc[t] = "deref"
        /\ lazy[s] \in {"uninit", "running"}
        /\ lazy' = [lazy EXCEPT ![s] = "running"]
        /\ pc' = [pc EXCEPT ![t] = "init"]
        /\ UNCHANGED <<registry, children, series, gauge, call, handle, returned,
                       script, up>>

\* Lazy::deref with the Once not yet run: this caller runs the initialiser,
\* and every other caller that dereferences the static waits for it.
LazyInitBegin(t) ==
    LET s == Plan(call[t]).static
    IN  /\ up
        /\ pc[t] = "deref"
        /\ lazy[s] = "uninit"
        /\ lazy' = [lazy EXCEPT ![s] = "running"]
        /\ pc' = [pc EXCEPT ![t] = "init"]
        /\ UNCHANGED <<registry, children, series, gauge, call, handle, returned,
                       script, up>>

\* Whether the default registry accepts the descriptor: no collector of
\* that name is registered.
CanRegister(d) == \A e \in registry : e.name # d.name

\* register_*!(...) returns Ok: the new, empty instrument is in the registry
\* and the static is initialised.
RegisterOk(t) ==
    LET s == Plan(call[t]).static
    IN  /\ up
        /\ pc[t] = "init"
        /\ CanRegister(Decl(s))
        /\ registry' = registry \cup {Decl(s)}
        /\ lazy' = [lazy EXCEPT ![s] = "ready"]
        /\ IF s \in VecStatics
           THEN /\ children' = [children EXCEPT ![s] = <<>>]
                /\ series' = [series EXCEPT ![s] = <<>>]
                /\ gauge' = gauge
           ELSE /\ gauge' = 0
                /\ UNCHANGED <<children, series>>
        /\ pc' = [pc EXCEPT ![t] = "deref"]
        /\ UNCHANGED <<call, handle, returned, script, up>>

\* A panic unwinds the caller; whether the rest of the process survives it
\* depends on the caller (a worker task or the main thread) and on the
\* panic strategy of the build.
Panic(t) ==
    /\ pc' = [pc EXCEPT ![t] = "panicked"]
    /\ up' \in BOOLEAN

\* register_*!(...) returns Err and .unwrap() panics inside the initialiser:
\* the Once of the static is poisoned.
RegisterFail(t) ==
    LET s == Plan(call[t]).static
    IN  /\ up
        /\ pc[t] = "init"
        /\ ~CanRegister(Decl(s))
        /\ lazy' = [lazy EXCEPT ![s] = "poisoned"]
        /\ Panic(t)
        /\ UNCHANGED <<registry, children, series, gauge, call, handle, returned,
                       script>>

\* Lazy::deref of a static whose Once is poisoned panics.
DerefPoisoned(t) ==
    LET s == Plan(call[t]).static
    IN  /\ up
        /\ pc[t] = "deref"
        /\ lazy[s] = "poisoned"
        /\ Panic(t)
        /\ UNCHANGED <<registry, lazy, children, series, gauge, call, handle,
                       returned, script>>

\* STATIC.with(&labels) on an initialised vector.
With(t) ==
    LET p == Plan(call[t])
        s == p.static
    IN  /\ up
        /\ pc[t] = "deref"
        /\ s \in VecStatics
        /\ lazy[s] = "ready"
        /\ LET w == VecWith(s, p.labels)
           IN  /\ handle' = [handle EXCEPT ![t] = w.handle]
               /\ children' = [children EXCEPT ![s] = w.children]
               /\ series' = [series EXCEPT ![s] = w.series]
        /\ pc' = [pc EXCEPT ![t] = "apply"]
        /\ UNCHANGED <<registry, lazy, gauge, call, returned, script, up>>

\* .inc() on the counter series the caller holds, and return.
Inc(t) ==
    LET p == Plan(call[t])
        s == p.static
    IN  /\ up
        /\ pc[t] = "apply"
        /\ p.update = "inc"
        /\ series' = [series EXCEPT ![s][handle[t]] = CounterInc(@)]
        /\ Return(t)
        /\ UNCHANGED <<registry, lazy, children, gauge, script, up>>

\* .observe(time as f64) on the histogram series the caller holds, and return.
Observe(t) ==
    LET p == Plan(call[t])
        s == p.static
    IN  /\ up
        /\ pc[t] = "apply"
        /\ p.update = "observe"
        /\ series' = [series EXCEPT ![s][handle[t]] = HistogramObserve(@, p.value)]
        /\ Return(t)
        /\ UNCHANGED <<registry, lazy, children, gauge, script, up>>

\* CONCURRENT_REQUESTS.inc() or .dec() on the initialised gauge, and return.
GaugeUpdate(t) ==
    LET p == Plan(call[t])
        s == p.static
    IN  /\ up
        /\ pc[t] = "deref"
        /\ s \notin VecStatics
        /\ lazy[s] = "ready"
        /\ gauge' = IF p.update = "inc" THEN GaugeInc(gauge) ELSE GaugeDec(gauge)
        /\ Return(t)
        /\ UNCHANGED <<registry, lazy, children, series, script, up>>

Step(t) ==
    \/ Call(t)
    \/ LazyInitBegin(t)
    \/ RegisterOk(t)
    \/ With(t)
    \/ Inc(t)
    \/ Observe(t)
    \/ GaugeUpdate(t)

Next == \E t \in Callers : Step(t)

Spec == Init /\ [][Next]_vars

(***************************************************************************)
(* The same callers in a process whose default registry may already hold   *)
(* a collector, registered by other code of the process, under the name of *)
(* one of the instruments the callers use.                                 *)
(***************************************************************************)
Foreign(name) == [name |-> name, kind |-> "foreign", labels |-> <<>>]

\* The statics the calls of a script address.
StaticsOf(scr) == {Plan(scr[t][1]).static : t \in Callers}

InitCollide ==
    /\ InitProcess
    /\ script \in FreeScripts
    /\ registry \in {{}} \cup {{Foreign(Decl(s).name)} : s \in StaticsOf(script)}

StepCollide(t) ==
    \/ Step(t)
    \/ RegisterFail(t)
    \/ DerefPoisoned(t)

NextCollide == \E t \in Callers : StepCollide(t)

SpecCollide == InitCollide /\ [][NextCollide]_vars

(***************************************************************************)
(* Callers that follow the host's request protocol: at acceptance the      *)
(* in-flight gauge and the host request counter are incremented; at        *)
(* completion the gauge is decremented, the host error counter is          *)
(* incremented if the request failed, and the total time is observed.      *)
(* Each caller handles MaxRounds requests, one after the other.            *)
(***************************************************************************)
IncCurrentReq == MkCall("inc_current_req", "-", 0, 0, FALSE)

DecCurrentReq == MkCall("dec_current_req", "-", 0, 0, FALSE)

RequestScript(b, d, ok) ==
    <<IncCurrentReq, MkCall("inc_host_req_count", "-", b, 0, FALSE), DecCurrentReq>>
    \o (IF ok THEN <<>> ELSE <<MkCall("inc_host_error", "-", b, 0, FALSE)>>)
    \o <<MkCall("observe_total_time", "-", b, d, ok)>>

RequestScripts ==
    {[t \in Callers |-> RepeatSeq(RequestScript(b[t], d[t], ok[t]), MaxRounds)] :
        b \in [Callers -> BlockIds], d \in [Callers -> Times], ok \in [Callers -> BOOLEAN]}

InitRequests ==
    /\ InitProcess
    /\ registry = {}
    /\ script \in RequestScripts

SpecRequests == InitRequests /\ [][Next]_vars

(***************************************************************************)
(* Callers that follow the guest dispatch protocol: the guest request      *)
(* counter is incremented before the dispatch; after the attempt the       *)
(* success or the error counter is incremented and the guest time is       *)
(* observed, tagged with the outcome.  Each caller makes MaxRounds         *)
(* dispatches.  The gauge is not touched.                                  *)
(***************************************************************************)
DispatchScript(g, b, d, ok) ==
    <<MkCall("inc_guest_req_count", g, b, 0, FALSE),
      MkCall(IF ok THEN "inc_guest_success" ELSE "inc_guest_error", g, b, 0, FALSE),
      MkCall("observe_guest_time", g, b, d, ok)>>

DispatchScripts ==
    {[t \in Callers |-> RepeatSeq(DispatchScript(g[t], b[t], d[t], ok[t]), MaxRounds)] :
        g \in [Callers -> ProofTypes], b \in [Callers -> BlockIds],
        d \in [Callers -> Times], ok \in [Callers -> BOOLEAN]}

InitGuest ==
    /\ InitProcess
    /\ registry = {}
    /\ script \in DispatchScripts

StepGuest(t) ==
    \/ Call(t)
    \/ LazyInitBegin(t)
    \/ RegisterOk(t)
    \/ With(t)
    \/ Inc(t)
    \/ Observe(t)

NextGuest == \E t \in Callers : StepGuest(t)

SpecGuest == InitGuest /\ [][NextGuest]_vars

(***************************************************************************)
(* What an observer of the registry sees, and what the callers have done.  *)
(***************************************************************************)
VecCalls == {c \in Calls : c.op \notin GaugeOps}

CounterCalls == {c \in Calls : c.op \in CounterOps}

HistogramCalls == {c \in Calls : c.op \in HistogramOps}

\* Whether calls c and d of one function carry the same label inputs.
SameTuple(c, d) ==
    /\ c.op = d.op
    /\ c.guest = d.guest
    /\ c.block_id = d.block_id
    /\ c.success = d.success

\* The series call c addresses, as exported by a vector in the state
\* (lz, ch, sr): the one the vector maps the label values of c to.
ObservedIn(c, lz, ch, sr) ==
    LET p == Plan(c)
        s == p.static
        key == KeyOf(s, p.labels)
    IN  IF lz[s] = "ready" /\ key \in DOMAIN ch[s]
        THEN LET v == sr[s][[key |-> key, n |-> ch[s][key]]]
             IN  IF Decl(s).kind = "histogram"
                 THEN [exists |-> TRUE, count |-> v.count, sum |-> v.sum]
                 ELSE [exists |-> TRUE, count |-> v, sum |-> 0]
        ELSE [exists |-> FALSE, count |-> 0, sum |-> 0]

Observed(c) == ObservedIn(c, lazy, children, series)

\* How many calls equal to c have returned.
TimesReturned(c) == CopiesIn(c, returned)

\* The returned calls of the function of c with the label inputs of c.
TupleCalls(c) == {d \in BagToSet(returned) : SameTuple(c, d)}

\* How many calls for the label tuple of c have returned.
TupleReturned(c) == BagCardinality([d \in TupleCalls(c) |-> returned[d]])

\* The calls made so far: returned or in progress.
Made == BagToSet(returned) \cup {call[t] : t \in {u \in Callers : pc[u] \notin {"idle"}}}

\* Every caller has made all its calls and all have returned.
AllReturned == \A t \in Callers : pc[t] = "idle" /\ script[t] = <<>>

\* No call is in progress.
Quiescent == \A t \in Callers : pc[t] = "idle"

(***************************************************************************)
(* C1.  When T concurrent callers have each made K increments of one       *)
(* counter with one label tuple and all calls have returned, the series    *)
(* reads T*K (it did not exist before): no increment is lost.              *)
(***************************************************************************)
C1_NoLostIncrement ==
    \A c \in Made \cap CounterCalls :
        (AllReturned /\ TimesReturned(c) = Cardinality(Callers) * MaxRounds)
            => /\ Observed(c).exists
               /\ Observed(c).count = Cardinality(Callers) * MaxRounds

C1_Witness ==
    \E c \in CounterCalls :
        /\ AllReturned
        /\ TimesReturned(c) = Cardinality(Callers) * MaxRounds
        /\ Observed(c).count = Cardinality(Callers) * MaxRounds

(***************************************************************************)
(* C2.  For each of the five counters, once N >= 1 calls of its increment  *)
(* with one label tuple have returned, the series of that tuple, which did *)
(* not exist at the start, reads N.                                        *)
(***************************************************************************)
C2_CounterCountsCalls ==
    \A c \in Made \cap CounterCalls :
        /\ TimesReturned(c) >= 1 => Observed(c).exists
        /\ Observed(c).count = TimesReturned(c)

C2_Witness ==
    \E c \in CounterCalls :
        /\ c.op = "inc_guest_error"
        /\ TimesReturned(c) = MaxRounds
        /\ \E t \in Callers : pc[t] = "idle" /\ Len(script[t]) = MaxRounds
        /\ Observed(c).count = MaxRounds

(***************************************************************************)
(* C3.  Calls of one update function whose inputs differ in a label        *)
(* dimension address distinct series, and a step changes the series of a   *)
(* label tuple only when it is a step of a call made for that very tuple.  *)
(***************************************************************************)
\* Callers holding series for different label inputs hold different series.
DistinctSeries ==
    \A t1 \in Callers, t2 \in Callers :
        (/\ pc[t1] = "apply" /\ pc[t2] = "apply"
         /\ call[t1].op = call[t2].op
         /\ ~SameTuple(call[t1], call[t2]))
            => handle[t1] # handle[t2]

\* A step that changes what the series of a call made shows is a step of a
\* call for that call's label tuple.
OnlyOwnSeries ==
    \A c \in (Made \cup Made') \cap VecCalls :
        ObservedIn(c, lazy', children', series') # Observed(c)
            => \E t \in Callers : pc'[t] # pc[t] /\ SameTuple(call[t], c)

C3_LabelIsolation == [][DistinctSeries' /\ OnlyOwnSeries]_vars

C3_Witness ==
    \E c \in VecCalls, d \in VecCalls :
        /\ c.op = "inc_guest_req_count" /\ d.op = c.op
        /\ c.guest = d.guest /\ c.block_id # d.block_id
        /\ TimesReturned(c) = MaxRounds /\ TimesReturned(d) = 1
        /\ Observed(c).count = MaxRounds /\ Observed(d).count = 1

(***************************************************************************)
(* C4.  An instrument holds at most one series per label tuple: every      *)
(* series ever created is the one its label tuple is mapped to, and every  *)
(* caller about to update, first access or not, holds that series.         *)
(***************************************************************************)
C4_OneSeriesPerTuple ==
    \A s \in VecStatics :
        /\ \A o \in DOMAIN series[s] :
              o.key \in DOMAIN children[s] /\ children[s][o.key] = o.n
        /\ \A t \in Callers :
              (pc[t] = "apply" /\ Plan(call[t]).static = s)
                => /\ handle[t] \in DOMAIN series[s]
                   /\ handle[t].key = KeyOf(s, Plan(call[t]).labels)

\* Two callers made the first access of one new label tuple together and
\* both hold the one series created.
C4_Witness ==
    \E t1 \in Callers : \E t2 \in Callers \ {t1} :
        /\ pc[t1] = "apply" /\ pc[t2] = "apply"
        /\ returned = EmptyBag
        /\ call[t1] = call[t2]
        /\ handle[t1] = handle[t2]
        /\ Cardinality(DOMAIN series[Plan(call[t1]).static]) = 1

(***************************************************************************)
(* C5.  Once all calls have returned, M calls of inc_current_req and M     *)
(* calls of dec_current_req, in any interleaving, leave the gauge at the   *)
(* value it had before them (0), and M increments with no decrement leave  *)
(* it at M.                                                                *)
(***************************************************************************)
C5_GaugeNetZero ==
    Quiescent =>
        /\ TimesReturned(IncCurrentReq) = TimesReturned(DecCurrentReq) => gauge = 0
        /\ TimesReturned(DecCurrentReq) = 0 => gauge = TimesReturned(IncCurrentReq)

C5_Witness ==
    /\ Quiescent
    /\ TimesReturned(IncCurrentReq) = MaxRounds
    /\ TimesReturned(DecCurrentReq) = MaxRounds
    /\ gauge = 0

(***************************************************************************)
(* C7.  A histogram series counts the observations made for its label      *)
(* tuple.  Its sum is the f64 sum of the durations cast to f64: it is the  *)
(* exact total v1 + ... + vn while that total is at most 2^MantBits, and   *)
(* within rounding of it otherwise.  No unit is converted.                 *)
(***************************************************************************)
\* v1 + ... + vn over the returned observations of c's label tuple.
TupleTimeSum(c) ==
    BagCardinality([d \in TupleCalls(c) |-> d.time * returned[d]])

Abs(x) == IF x < 0 THEN -x ELSE x

\* The claim as worded: the sum is the exact total, whatever the durations.
C7_ExactSum ==
    \A c \in Made \cap HistogramCalls :
        /\ Observed(c).count = TupleReturned(c)
        /\ Observed(c).sum = TupleTimeSum(c)

C7_HistogramCountSum ==
    \A c \in Made \cap HistogramCalls :
        /\ Observed(c).count = TupleReturned(c)
        /\ TupleTimeSum(c) <= 2 ^ MantBits => Observed(c).sum = TupleTimeSum(c)
        /\ Abs(Observed(c).sum - TupleTimeSum(c))
              <= 2 * TupleReturned(c) * Ulp(TupleTimeSum(c))

C7_Witness ==
    \E c \in HistogramCalls :
        /\ c.time = 1500
        /\ TimesReturned(c) = Cardinality(Callers) * MaxRounds
        /\ Observed(c).count = Cardinality(Callers) * MaxRounds
        /\ Observed(c).sum = Cardinality(Callers) * MaxRounds * 1500

(***************************************************************************)
(* C6.  Under the request protocol, whenever no call is in progress the    *)
(* gauge equals the number of requests accepted minus the number           *)
(* completed, whatever the interleaving and the block ids; and the gauge   *)
(* is never negative.                                                      *)
(***************************************************************************)
\* Positions of call c in the calls the callers have still to make.
StillToMake(c) ==
    {<<t, i>> \in Callers \X (1..(5 * MaxRounds)) : i <= Len(script[t]) /\ script[t][i] = c}

\* Requests whose acceptance (completion) the host has reached: each request
\* makes one inc_current_req at acceptance and one dec_current_req at completion.
RequestsStarted == Cardinality(Callers) * MaxRounds - Cardinality(StillToMake(IncCurrentReq))

RequestsCompleted == Cardinality(Callers) * MaxRounds - Cardinality(StillToMake(DecCurrentReq))

C6_GaugeIsInFlight ==
    /\ gauge >= 0
    /\ Quiescent => gauge = RequestsStarted - RequestsCompleted

\* Every caller is inside a request, and one of them has completed one before.
C6_Witness ==
    /\ Quiescent
    /\ RequestsCompleted >= 1
    /\ RequestsStarted - RequestsCompleted = Cardinality(Callers)
    /\ gauge = Cardinality(Callers)

(***************************************************************************)
(* C8.  The registry holds only instruments of the catalog, each under the *)
(* kind and the ordered label names the catalog gives and, but for the     *)
(* three histograms, under its name: the histograms are registered as      *)
(* guest_proof_time_histogram, prepare_input_time_histogram and            *)
(* total_time_histogram.  After the calls for (GuestA, 7) with duration    *)
(* 1500 and success, the series                                            *)
(* guest_proof_time_histogram{guest=GuestA, block_id=7, success=true} has  *)
(* count 1 and sum 1500.  No step changes or removes a registered          *)
(* instrument.                                                             *)
(***************************************************************************)
\* The Instrument Catalog as the specification tabulates it.
SpecCatalog ==
    {[name |-> "host_request_count", kind |-> "counter", labels |-> <<"block_id">>],
     [name |-> "host_error_count", kind |-> "counter", labels |-> <<"block_id">>],
     [name |-> "guest_proof_request_count", kind |-> "counter",
      labels |-> <<"guest", "block_id">>],
     [name |-> "guest_proof_success_count", kind |-> "counter",
      labels |-> <<"guest", "block_id">>],
     [name |-> "guest_proof_error_count", kind |-> "counter",
      labels |-> <<"guest", "block_id">>],
     [name |-> "guest_proof_time", kind |-> "histogram",
      labels |-> <<"guest", "block_id", "success">>],
     [name |-> "prepare_input_time", kind |-> "histogram",
      labels |-> <<"block_id", "success">>],
     [name |-> "total_time", kind |-> "histogram", labels |-> <<"block_id", "success">>],
     [name |-> "concurrent_requests", kind |-> "gauge", labels |-> <<>>]}

\* The catalog with the histograms under the names they are registered with.
RegisteredCatalog ==
    {IF d.kind = "histogram" THEN [d EXCEPT !.name = @ \o "_histogram"] ELSE d :
        d \in SpecCatalog}

\* The series with label values key of the instrument registered as name.
SeriesByName(name, key) ==
    LET ss == {s \in VecStatics :
                  /\ lazy[s] = "ready" /\ Decl(s) \in registry /\ Decl(s).name = name
                  /\ key \in DOMAIN children[s]}
    IN  IF ss = {} THEN [count |-> 0, sum |-> 0]
        ELSE LET s == CHOOSE x \in ss : TRUE
             IN  series[s][[key |-> key, n |-> children[s][key]]]

\* The three calls of the scenario have returned, and nothing else has been called.
ScenarioDone ==
    /\ Quiescent
    /\ returned = SetToBag({MkCall("inc_guest_req_count", "GuestA", 7, 0, FALSE),
                            MkCall("inc_guest_success", "GuestA", 7, 0, FALSE),
                            MkCall("observe_guest_time", "GuestA", 7, 1500, TRUE)})

CatalogAsRegistered ==
    /\ registry \subseteq RegisteredCatalog
    /\ ScenarioDone =>
          SeriesByName("guest_proof_time_histogram", <<"GuestA", "7", "true">>)
              = [count |-> 1, sum |-> 1500]

C9_FailureIsFatal ==
    ~(/\ up
      /\ \E s1 \in Statics, s2 \in Statics :
            /\ lazy[s1] = "ready" /\ Decl(s1) \in registry
            /\ lazy[s2] = "poisoned")

(***************************************************************************)
(* C10.  No call of an update function ends in an error and no caller      *)
(* inside a call waits for another caller.                                 *)
(***************************************************************************)
\* Caller t cannot proceed until the caller that runs the static's
\* initialiser has finished.
Waiting(t) == pc[t] = "deref" /\ lazy[Plan(call[t]).static] = "running"

C10_InfallibleNonBlocking ==
    \A t \in Callers : pc[t] # "panicked" /\ ~Waiting(t)

(***************************************************************************)
(* C11.  A step of a call creates or changes a series only in the          *)
(* instrument of the called operation and only for the label tuple of the  *)
(* call; every other instrument, the gauge included, is left as it was.    *)
(* A series exists in an instrument only if a call of that instrument's    *)
(* operation was made for its label tuple: one inc_host_req_count(42)      *)
(* leaves host_error_count without a series for 42.                        *)
(***************************************************************************)
\* The instrument each operation is specified to update.
OwnInstrument(op) ==
    CASE op = "inc_current_req" -> "CONCURRENT_REQUESTS"
      [] op = "dec_current_req" -> "CONCURRENT_REQUESTS"
      [] op = "inc_host_req_count" -> "HOST_REQ_COUNT"
      [] op = "inc_host_error" -> "HOST_ERROR_COUNT"
      [] op = "inc_guest_req_count" -> "GUEST_PROOF_REQ_COUNT"
      [] op = "inc_guest_success" -> "GUEST_PROOF_SUCCESS_COUNT"
      [] op = "inc_guest_error" -> "GUEST_PROOF_ERROR_COUNT"
      [] op = "observe_guest_time" -> "GUEST_PROOF_TIME"
      [] op = "observe_prepare_input_time" -> "PREPARE_INPUT_TIME"
      [] op = "observe_total_time" -> "TOTAL_TIME"

\* Every series of the vectors ch was targeted by a call among made.
SeriesHaveCalls(ch, made) ==
    \A s \in VecStatics :
        \A key \in DOMAIN ch[s] :
            \E c \in made \cap VecCalls :
                OwnInstrument(c.op) = s /\ KeyOf(s, Plan(c).labels) = key

\* The step of caller t leaves alone all but the series its call addresses.
OnlyOwnInstrument ==
    \A t \in Callers :
        pc'[t] # pc[t] =>
            LET c == IF pc[t] = "idle" THEN call'[t] ELSE call[t]
                own == OwnInstrument(c.op)
            IN  /\ own # "CONCURRENT_REQUESTS" => gauge' = gauge
                /\ \A s \in VecStatics \ {own} :
                      children'[s] = children[s] /\ series'[s] = series[s]
                /\ own \in VecStatics =>
                      LET key == KeyOf(own, Plan(c).labels)
                      IN  /\ \A k \in DOMAIN children'[own] \ {key} :
                                /\ k \in DOMAIN children[own]
                                /\ children'[own][k] = children[own][k]
                          /\ \A o \in DOMAIN series'[own] :
                                o.key # key =>
                                    /\ o \in DOMAIN series[own]
                                    /\ series'[own][o] = series[own][o]

C12_GaugeUnclamped ==
    /\ gauge = TimesReturned(IncCurrentReq) - TimesReturned(DecCurrentReq)
    /\ \A t \in Callers : pc[t] # "panicked"

\* The first decrement found the gauge at 0; two have returned against one
\* increment.
C12_Witness ==
    /\ Quiescent
    /\ TimesReturned(IncCurrentReq) = 1
    /\ TimesReturned(DecCurrentReq) = 2
    /\ gauge = -1

(***************************************************************************)
(* C13.  No step removes or resets a series: a label tuple that has a      *)
(* series in a state has the same series in the next, and the value of a   *)
(* counter series and the observation count of a histogram series do not   *)
(* decrease.                                                               *)
(***************************************************************************)
\* The value of a counter series, the observation count of a histogram series.
CountOf(s, v) == IF Decl(s).kind = "histogram" THEN v.count ELSE v

SeriesKept ==
    \A s \in VecStatics :
        \A key \in DOMAIN children[s] :
            /\ key \in DOMAIN children'[s]
            /\ children'[s][key] = children[s][key]
            /\ LET o == [key |-> key, n |-> children[s][key]]
               IN  /\ o \in DOMAIN series'[s]
                   /\ CountOf(s, series'[s][o]) >= CountOf(s, series[s][o])

C13_NoRemovalNoDecrease == [][SeriesKept]_vars

\* A counter series and a histogram series have each been updated
\* MaxRounds times, staying in place from one update to the next.
C13_Witness ==
    /\ \E s \in VecStatics :
          /\ Decl(s).kind = "counter"
          /\ \E o \in DOMAIN series[s] : series[s][o] = MaxRounds
    /\ \E s \in VecStatics :
          /\ Decl(s).kind = "histogram"
          /\ \E o \in DOMAIN series[s] : series[s][o].count = MaxRounds

(***************************************************************************)
(* C14.  Each instrument in use is registered exactly once: of the callers *)
(* that make the first call on an instrument together one runs its         *)
(* registration and the others use the instrument it registered; an        *)
(* instrument once registered stays registered, is not registered again,   *)
(* and its series are not reset.                                           *)
(***************************************************************************)
\* The callers running the initialiser of static s.
Initialising(s) == {t \in Callers : pc[t] = "init" /\ Plan(call[t]).static = s}

\* At most one caller runs the initialiser of a static, and none once the
\* static is initialised; the initialised statics are the registered ones;
\* callers past the dereference use an initialised, registered static.
RegisteredOnce ==
    /\ \A s \in Statics :
          /\ Cardinality(Initialising(s)) = (IF lazy[s] = "running" THEN 1 ELSE 0)
          /\ lazy[s] = "ready" <=> Decl(s) \in registry
    /\ \A t \in Callers :
          pc[t] = "apply" => lazy[Plan(call[t]).static] = "ready"
    /\ \A c \in BagToSet(returned) : lazy[Plan(c).static] = "ready"

\* A step registers an instrument only as the end of the one run of its
\* initialiser, and leaves a registered instrument registered and its series
\* in place.
NoReRegistration ==
    \A s \in Statics :
        /\ lazy'[s] # lazy[s] =>
              \/ lazy[s] = "uninit" /\ lazy'[s] = "running"
              \/ /\ lazy[s] = "running" /\ lazy'[s] = "ready"
                 /\ Decl(s) \notin registry
                 /\ registry' = registry \cup {Decl(s)}
        /\ lazy'[s] = lazy[s] => (Decl(s) \in registry' <=> Decl(s) \in registry)
        /\ (lazy[s] = "ready" /\ s \in VecStatics) =>
              \A key \in DOMAIN children[s] :
                  key \in DOMAIN children'[s] /\ children'[s][key] = children[s][key]

C14_RegisteredOnce == [][RegisteredOnce' /\ NoReRegistration]_vars

\* Both callers are in their first call, on the same instrument: one has
\* registered it and holds a series of it, the other is about to use it.
C14_Witness ==
    \E t1 \in Callers : \E t2 \in Callers \ {t1} :
        /\ returned = EmptyBag
        /\ pc[t1] = "apply" /\ pc[t2] = "deref"
        /\ Plan(call[t1]).static = Plan(call[t2]).static
        /\ lazy[Plan(call[t1]).static] = "ready"
        /\ Decl(Plan(call[t1]).static) \in registry

(***************************************************************************)
(* C15.  Under the guest dispatch protocol, for every (guest, block_id)    *)
(* and in every state: the request counter is at least the sum of the      *)
(* success and the error counter, and equal to it when no attempt for the  *)
(* pair is in progress; the observations tagged success=true (false) are   *)
(* no more than the success (error) counter plus the attempts of that      *)
(* outcome being recorded.                                                 *)
(***************************************************************************)
\* The count the series with label values key of static s shows, 0 if the
\* static has no such series.
SeriesCount(s, key) ==
    IF lazy[s] = "ready" /\ key \in DOMAIN children[s]
    THEN CountOf(s, series[s][[key |-> key, n |-> children[s][key]]])
    ELSE 0

\* The calls of its script caller t has completed.
CallsDone(t) == 3 * MaxRounds - Len(script[t]) - (IF pc[t] = "idle" THEN 0 ELSE 1)

\* The call caller t is in, or else the next it will make.
CurrentCall(t) ==
    IF pc[t] # "idle" THEN call[t]
    ELSE IF script[t] # <<>> THEN Head(script[t]) ELSE NoCall

\* Caller t has begun to record a request for (g, b) and has not yet
\* recorded the outcome of the attempt.
AttemptInProgress(t, g, b) ==
    /\ CurrentCall(t).guest = g /\ CurrentCall(t).block_id = b
    /\ \/ CallsDone(t) % 3 = 0 /\ pc[t] # "idle"
       \/ CallsDone(t) % 3 = 1

\* Caller t is recording the outcome ok of an attempt for (g, b): it is
\* incrementing the outcome's counter or has the observation still to make.
Recording(t, g, b, ok) ==
    /\ CurrentCall(t).guest = g /\ CurrentCall(t).block_id = b
    /\ \/ /\ CallsDone(t) % 3 = 1 /\ pc[t] # "idle"
          /\ CurrentCall(t).op = (IF ok THEN "inc_guest_success" ELSE "inc_guest_error")
       \/ CallsDone(t) % 3 = 2 /\ CurrentCall(t).success = ok

C15_GuestCounters ==
    \A g \in ProofTypes, b \in BlockIds :
        LET key == <<ProofTypeToString(g), U64ToString(b)>>
            req == SeriesCount("GUEST_PROOF_REQ_COUNT", key)
            succ == SeriesCount("GUEST_PROOF_SUCCESS_COUNT", key)
            err == SeriesCount("GUEST_PROOF_ERROR_COUNT", key)
            time_ok == SeriesCount("GUEST_PROOF_TIME", key \o <<BoolToString(TRUE)>>)
            time_err == SeriesCount("GUEST_PROOF_TIME", key \o <<BoolToString(FALSE)>>)
        IN  /\ req >= succ + err
            /\ (\A t \in Callers : ~AttemptInProgress(t, g, b)) => req = succ + err
            /\ time_ok <= succ + Cardinality({t \in Callers : Recording(t, g, b, TRUE)})
            /\ time_err <= err + Cardinality({t \in Callers : Recording(t, g, b, FALSE)})

\* For (GuestA, 7) one attempt has failed and been recorded in full, and a
\* second attempt is in progress.
C15_Witness ==
    /\ Quiescent
    /\ SeriesCount("GUEST_PROOF_REQ_COUNT", <<"GuestA", "7">>) = 2
    /\ SeriesCount("GUEST_PROOF_SUCCESS_COUNT", <<"GuestA", "7">>) = 0
    /\ SeriesCount("GUEST_PROOF_ERROR_COUNT", <<"GuestA", "7">>) = 1
    /\ SeriesCount("GUEST_PROOF_TIME", <<"GuestA", "7", "false">>) = 1
    /\ \E t \in Callers : AttemptInProgress(t, "GuestA", 7)

=============================================================================
